---- MODULE Spec2Model ----
(***************************************************************************)
(* The "Open in VLC / MPC-HC" browser extension: the background script     *)
(* (context menu, preference change listener, launch request) and the      *)
(* settings popup (player options, port field, save, helper status check,  *)
(* message area), together with the browser pieces they talk to            *)
(* (storage.local, storage.onChanged, contextMenus, notifications, fetch). *)
(*                                                                         *)
(* JavaScript strings are TLA+ strings (TLC evaluates Len, SubSeq and \o   *)
(* on them); a JavaScript object is a function whose DOMAIN is the set of  *)
(* properties that are present, so a missing property (undefined) is a     *)
(* key outside the DOMAIN.                                                 *)
(***************************************************************************)
EXTENDS Integers, Sequences, FiniteSets, TLC

(***************************************************************************)
(* Bounds of the model.                                                    *)
(***************************************************************************)
MaxLen == 3          \* longest string handed to a pure function
MaxEvents == 3       \* install/update events and user inputs (clicks, toggles, typing)

(***************************************************************************)
(* JavaScript built-ins used by the scripts.                               *)
(***************************************************************************)
charAt(s, i) == IF i + 1 <= Len(s) THEN SubSeq(s, i + 1, i + 1) ELSE ""

slice(s, from) == IF from + 1 <= Len(s) THEN SubSeq(s, from + 1, Len(s)) ELSE ""

LowerCase == <<"a","b","c","d","e","f","g","h","i","j","k","l","m",
               "n","o","p","q","r","s","t","u","v","w","x","y","z">>

UpperCase == <<"A","B","C","D","E","F","G","H","I","J","K","L","M",
               "N","O","P","Q","R","S","T","U","V","W","X","Y","Z">>

Digits == <<"0","1","2","3","4","5","6","7","8","9">>

Range(f) == {f[i] : i \in DOMAIN f}

IndexOf(seq, c) == CHOOSE i \in DOMAIN seq : seq[i] = c

\* String.prototype.toUpperCase on a string of at most one character
toUpperCase(c) ==
    IF c \in Range(LowerCase) THEN UpperCase[IndexOf(LowerCase, c)] ELSE c

\* the characters encodeURIComponent leaves alone: A-Z a-z 0-9 - _ . ! ~ * ' ( )
UriUnreserved ==
    Range(LowerCase) \cup Range(UpperCase) \cup Range(Digits)
        \cup {"-", "_", ".", "!", "~", "*", "'", "(", ")"}

\* the escape of the other printable ASCII characters (the double quote, the
\* backslash and the backquote, which no string of the model holds, are left out)
UriEscaped ==
    << <<" ", "%20">>, <<"#", "%23">>, <<"$", "%24">>,
       <<"%", "%25">>, <<"&", "%26">>, <<"+", "%2B">>, <<",", "%2C">>,
       <<"/", "%2F">>, <<":", "%3A">>, <<";", "%3B">>, <<"<", "%3C">>,
       <<"=", "%3D">>, <<">", "%3E">>, <<"?", "%3F">>, <<"@", "%40">>,
       <<"[", "%5B">>, <<"]", "%5D">>, <<"^", "%5E">>,
       <<"{", "%7B">>, <<"|", "%7C">>, <<"}", "%7D">> >>

encodeChar(c) ==
    IF c \in UriUnreserved THEN c
    ELSE (CHOOSE e \in Range(UriEscaped) : e[1] = c)[2]

\* a faulty variant, for sensitivity: the string is embedded as it is
encodeURIComponent_Raw(s) == s

\* the characters of s from index i on, each encoded
RECURSIVE encodeFrom(_, _)
encodeFrom(s, i) ==
    IF i >= Len(s) THEN ""
    ELSE encodeChar(charAt(s, i)) \o encodeFrom(s, i + 1)

encodeURIComponent(s) == encodeFrom(s, 0)

IsDigit(c) == c \in Range(Digits)

DigitValue(c) == IndexOf(Digits, c) - 1

IsWhiteSpace(c) == c \in {" ", "\t", "\n"}

RECURSIVE TrimStart(_)
TrimStart(s) ==
    IF s # "" /\ IsWhiteSpace(charAt(s, 0)) THEN TrimStart(slice(s, 1)) ELSE s

\* the value of the longest run of decimal digits at the start of s, after acc
RECURSIVE DigitRun(_, _)
DigitRun(s, acc) ==
    IF s # "" /\ IsDigit(charAt(s, 0))
    THEN DigitRun(slice(s, 1), 10 * acc + DigitValue(charAt(s, 0)))
    ELSE acc

\* parseInt(s, 10): << >> is NaN, << n >> is the number n
parseInt(s) ==
    LET t    == TrimStart(s)
        neg  == t # "" /\ charAt(t, 0) = "-"
        body == IF t # "" /\ charAt(t, 0) \in {"-", "+"} THEN slice(t, 1) ELSE t
    IN  IF body = "" \/ ~IsDigit(charAt(body, 0)) THEN << >>
        ELSE << (IF neg THEN -1 ELSE 1) * DigitRun(body, 0) >>

\* number || fallback, for a parseInt result: NaN and 0 are falsy
NumberOr(n, fallback) == IF n = << >> \/ n[1] = 0 THEN fallback ELSE n[1]

\* result.key || fallback for a string property: undefined and "" are falsy
StringProp(result, key, fallback) ==
    IF key \in DOMAIN result /\ result[key] # "" THEN result[key] ELSE fallback

\* result.key || fallback for a number property: undefined and 0 are falsy
NumberProp(result, key, fallback) ==
    IF key \in DOMAIN result /\ result[key] # 0 THEN result[key] ELSE fallback

(***************************************************************************)
(* The scripts.  The repository holds two background scripts and two       *)
(* popup scripts; which popup ships with which background script is left   *)
(* open (two of the four files carry no name), so every pairing is a       *)
(* build of the model.                                                     *)
(***************************************************************************)
BackgroundScripts == {"background.js", "part_001"}

PopupScripts == {"popup.js", "part_000"}

\* background.js ends with a third popup script (its lines 123-321).  It
\* reads, shows and saves the settings with the statements of popup.js and
\* differs from it in how it builds its messages, so it is a build of the
\* popup specification only.
MessagePopupScripts == PopupScripts \cup {"background.js"}

VARIABLES
    background,          \* the background script of the build
    popup,               \* the popup script of the build
    store,               \* storage.local: the items that are set
    setQueue,            \* storage.local.set calls not yet written
    setCallbacks,        \* completed set calls whose callback has not run
    changeQueue,         \* storage.onChanged events not yet delivered
    menu,                \* contextMenus: the items, in order of creation
    updates,             \* contextMenus.update calls that found their item
    events,              \* install/update events and user inputs so far
    installGets,         \* storage reads of the install handler in flight,
                         \* oldest first: << >> while storage has not read
                         \* yet, << result >> once it has and the callback waits
    clicks,              \* one record per menu click: its media URL, its stage,
                         \* storage as its read found it, how its request ended
    requests,            \* every fetch issued by the background script
    notifications,       \* every notification created
    popupPc,             \* "closed", "loading" (settings read in flight), "ready"
    mpc_checkbox,        \* .checked of the MPC-HC option
    vlc_checkbox,        \* .checked of the VLC option
    portText,            \* the text the port field shows
    app_connection_port, \* .value of the port field
    alertContainer,      \* the message area: its child elements, in order
    timers,              \* pending auto-dismiss timers (element, delay in ms)
    followDetached,      \* whether the timers of alerts that have left the
                         \* message area are kept in timers until they fire
    elements,            \* elements created so far
    checks,              \* one record per status check: its placeholder, its
                         \* stage, the alert that showed its result
    settled,             \* how the status request that ended last ended
    statusRequests,      \* the fetches issued by the popup, each with its check
    call                 \* the last application of a pure function

vars == << background, popup, followDetached, events, store, setQueue, setCallbacks, changeQueue,
           menu, updates, installGets, clicks, requests, notifications, popupPc,
           mpc_checkbox, vlc_checkbox, portText, app_connection_port,
           alertContainer, timers, elements, checks, settled, statusRequests,
           call >>

bgVars == << menu, updates, installGets, clicks, requests, notifications >>

storeVars == << store, setQueue, setCallbacks, changeQueue >>

formVars == << mpc_checkbox, vlc_checkbox, portText, app_connection_port >>

alertVars == << alertContainer, timers, elements, checks, settled, statusRequests >>

(***************************************************************************)
(* storage.local                                                           *)
(***************************************************************************)
EmptyObject == << >>

\* storage.local.get(keys): the items among keys that are set
StorageGet(keys) == [k \in keys \cap DOMAIN store |-> store[k]]

\* the changes object of the onChanged event for a write of items: the keys
\* whose value the write changes, each with its old (if any) and new value
StorageChanges(items) ==
    LET changed == {k \in DOMAIN items : k \notin DOMAIN store \/ store[k] # items[k]}
    IN  [k \in changed |->
            IF k \in DOMAIN store
            THEN [oldValue |-> store[k], newValue |-> items[k]]
            ELSE [newValue |-> items[k]]]

\* the browser writes the oldest pending set call, queues its change event and
\* makes its callback ready
StorageSet ==
    /\ setQueue # << >>
    /\ LET items   == Head(setQueue)
           changes == StorageChanges(items)
       IN  /\ store' = items @@ store
           /\ changeQueue' =
                  IF DOMAIN changes = {} THEN changeQueue
                  ELSE Append(changeQueue, [area |-> "local", changes |-> changes])
    /\ setQueue' = Tail(setQueue)
    /\ setCallbacks' = setCallbacks + 1
    /\ UNCHANGED << background, popup, followDetached, bgVars, popupPc, formVars, events,
                    alertVars, call >>

(***************************************************************************)
(* Background script: display name, context menu, change listener           *)
(***************************************************************************)
\* a faulty variant, for sensitivity: the fallback upper-cases two characters
getMediaPlayerDisplayName_TwoUpper(player) ==
    IF player = "vlc" THEN "VLC"
    ELSE IF player = "mpc" THEN "Media Player Classic (MPC-HC)"
    ELSE toUpperCase(charAt(player, 0)) \o toUpperCase(charAt(player, 1))
            \o slice(player, 2)

getMediaPlayerDisplayName(player) ==
    IF player = "vlc" THEN "VLC"
    ELSE IF player = "mpc" THEN "Media Player Classic (MPC-HC)"
    ELSE toUpperCase(charAt(player, 0)) \o slice(player, 1)

getPlayerDisplayName(player) ==
    IF player = "vlc" THEN "VLC"
    ELSE IF player = "mpc" THEN "Media Player Classic (MPC-HC)"
    ELSE toUpperCase(charAt(player, 0)) \o slice(player, 1)

\* the storage key each background script reads the player from
PlayerKey_part_001 == "defaultMediaPlayer"

PlayerKey_background_js == "defaultPlayer"

PlayerKey(script) ==
    IF script = "part_001" THEN PlayerKey_part_001 ELSE PlayerKey_background_js

MenuItemId == "viewInLocalMediaPlayer"

\* the createProperties of the install handler, from the result of its read
CreateProperties_part_001(result) ==
    LET defaultMediaPlayer == StringProp(result, "defaultMediaPlayer", "vlc")
        playerDisplayName  == getMediaPlayerDisplayName(defaultMediaPlayer)
    IN  [id |-> "viewInLocalMediaPlayer",
         title |-> "Open in " \o playerDisplayName,
         contexts |-> {"link", "audio", "video"},
         targetUrlPatterns |->
            {"*://*/*.avi", "*://*/*.mid", "*://*/*.webm", "*://*/*.mpg",
             "*://*/*.mp2", "*://*/*.mpeg", "*://*/*.mpe", "*://*/*.mpv",
             "*://*/*.ogg", "*://*/*.mp4", "*://*/*.m4p", "*://*/*.m4v",
             "*://*/*.wmv", "*://*/*.mov", "*://*/*.flv", "*://*/*.ogv",
             "*://*/*.3gp", "*://*/*.mkv",
             "*://*/*.aac", "*://*/*.mp3", "*://*/*.wav", "*://*/*.weba",
             "*://*/*.flac", "*://*/*.m4a"}]

CreateProperties_background_js(result) ==
    LET defaultPlayer     == StringProp(result, "defaultPlayer", "vlc")
        playerDisplayName == getPlayerDisplayName(defaultPlayer)
    IN  [id |-> "viewInLocalMediaPlayer",
         title |-> "Open in " \o playerDisplayName,
         contexts |-> {"link"},
         targetUrlPatterns |->
            {"*://*/*.mp4", "*://*/*.webm", "*://*/*.ogg", "*://*/*.mkv",
             "*://*/*.avi", "*://*/*.mov", "*://*/*.flv", "*://*/*.wmv"}]

CreateProperties(script, result) ==
    IF script = "part_001" THEN CreateProperties_part_001(result)
    ELSE CreateProperties_background_js(result)

\* contextMenus.create: an item whose id exists already is refused
ContextMenusCreate(m, properties) ==
    IF \E i \in DOMAIN m : m[i].id = properties.id THEN m
    ELSE Append(m, properties)

\* a faulty variant, for sensitivity: the item is removed and created anew
ContextMenusUpdate_Recreate(m, id, title) ==
    Append(SelectSeq(m, LAMBDA item : item.id # id),
           [id |-> id, title |-> title, contexts |-> {"all"},
            targetUrlPatterns |-> {}])

\* contextMenus.update(id, {title}): only the title of the item with that id
ContextMenusUpdate(m, id, title) ==
    [i \in DOMAIN m |-> IF m[i].id = id THEN [m[i] EXCEPT !.title = title] ELSE m[i]]

\* runtime.onInstalled: the listener asks storage for the player
OnInstalled ==
    /\ events < MaxEvents
    /\ events' = events + 1
    /\ installGets' = Append(installGets, << >>)
    /\ UNCHANGED << background, popup, followDetached, storeVars, menu, updates, clicks, requests,
                    notifications, popupPc, formVars, alertVars, call >>

\* storage carries out the oldest read not yet carried out; its result waits
\* for the callback, and what is written meanwhile is not in it
OnInstalledRead ==
    /\ \E i \in DOMAIN installGets :
         /\ installGets[i] = << >>
         /\ \A j \in 1..(i - 1) : installGets[j] # << >>
         /\ installGets' = [installGets EXCEPT
                               ![i] = << StorageGet({PlayerKey(background)}) >>]
    /\ UNCHANGED << background, popup, followDetached, storeVars, menu, updates, clicks, requests,
                    notifications, popupPc, formVars, events, alertVars, call >>

\* a faulty variant, for sensitivity: the install handler stores the player
\* it found
OnInstalledGet_StoresDefault ==
    /\ installGets # << >>
    /\ Head(installGets) # << >>
    /\ installGets' = Tail(installGets)
    /\ menu' = ContextMenusCreate(menu,
                   CreateProperties(background, Head(installGets)[1]))
    /\ store' = [k \in {PlayerKey(background)} |->
                    StringProp(store, PlayerKey(background), "vlc")] @@ store
    /\ UNCHANGED << background, popup, followDetached, setQueue, setCallbacks, changeQueue,
                    updates, clicks, requests, notifications, popupPc, formVars,
                    events, alertVars, call >>

\* the callback of that read creates the menu item
OnInstalledGet ==
    /\ installGets # << >>
    /\ Head(installGets) # << >>
    /\ installGets' = Tail(installGets)
    /\ menu' = ContextMenusCreate(menu,
                   CreateProperties(background, Head(installGets)[1]))
    /\ UNCHANGED << background, popup, followDetached, storeVars, updates, clicks, requests,
                    notifications, popupPc, formVars, events, alertVars, call >>

\* a faulty variant, for sensitivity: the storage area is not looked at
OnChangedUpdate_part_001_AnyArea(changes, area) ==
    IF "defaultMediaPlayer" \in DOMAIN changes
    THEN LET newPlayer == StringProp(changes["defaultMediaPlayer"], "newValue", "vlc")
             playerDisplayName == getMediaPlayerDisplayName(newPlayer)
         IN  << [id |-> "viewInLocalMediaPlayer",
                 title |-> "Open in " \o playerDisplayName] >>
    ELSE << >>

\* the contextMenus.update calls the storage.onChanged listener makes for one
\* event: none, or one with the id and the new title
OnChangedUpdate_part_001(changes, area) ==
    IF area = "local" /\ "defaultMediaPlayer" \in DOMAIN changes
    THEN LET newPlayer == StringProp(changes["defaultMediaPlayer"], "newValue", "vlc")
             playerDisplayName == getMediaPlayerDisplayName(newPlayer)
         IN  << [id |-> "viewInLocalMediaPlayer",
                 title |-> "Open in " \o playerDisplayName] >>
    ELSE << >>

OnChangedUpdate_background_js(changes, area) ==
    IF area = "local" /\ "defaultPlayer" \in DOMAIN changes
    THEN LET newPlayer == StringProp(changes["defaultPlayer"], "newValue", "vlc")
             playerDisplayName == getPlayerDisplayName(newPlayer)
         IN  << [id |-> "viewInLocalMediaPlayer",
                 title |-> "Open in " \o playerDisplayName] >>
    ELSE << >>

OnChangedUpdate(script, changes, area) ==
    IF script = "part_001" THEN OnChangedUpdate_part_001(changes, area)
    ELSE OnChangedUpdate_background_js(changes, area)

\* storage.onChanged: the oldest undelivered event reaches the listener
OnChanged ==
    /\ changeQueue # << >>
    /\ LET e    == Head(changeQueue)
           call_ == OnChangedUpdate(background, e.changes, e.area)
       IN  IF call_ = << >> THEN UNCHANGED << menu, updates >>
           ELSE /\ menu' = ContextMenusUpdate(menu, call_[1].id, call_[1].title)
                /\ updates' = updates +
                       (IF \E i \in DOMAIN menu : menu[i].id = call_[1].id
                        THEN 1 ELSE 0)
    /\ changeQueue' = Tail(changeQueue)
    /\ UNCHANGED << background, popup, followDetached, store, setQueue, setCallbacks,
                    installGets, clicks, requests, notifications, popupPc,
                    formVars, events, alertVars, call >>

(***************************************************************************)
(* Background script: clicks on the menu item and the launch request       *)
(***************************************************************************)
StartsWith(s, prefix) ==
    Len(s) >= Len(prefix) /\ SubSeq(s, 1, Len(prefix)) = prefix

EndsWith(s, suffix) ==
    Len(s) >= Len(suffix) /\ SubSeq(s, Len(s) - Len(suffix) + 1, Len(s)) = suffix

\* a match pattern "*://*/*<suffix>" of targetUrlPatterns against a URL
MatchesPattern(url, pattern) ==
    /\ StartsWith(url, "http://") \/ StartsWith(url, "https://")
    /\ EndsWith(url, SubSeq(pattern, 8, Len(pattern)))

\* what the user can right-click: the kinds of the element and the URLs the
\* browser reports for it (srcUrl of the media element, linkUrl of the link)
ClickTargets ==
    { [kinds |-> {"link"},  urls |-> [linkUrl |-> "http://h/a%20b.mkv"]],
      [kinds |-> {"video"}, urls |-> [srcUrl |-> "http://h/v.mp4"]],
      [kinds |-> {"link", "image"},
       urls |-> [srcUrl |-> "http://h/t.jpg", linkUrl |-> "http://h/a%20b.mkv"]] }

\* the browser shows an item on a target of one of its contexts with a URL
\* that matches one of its patterns
ItemShown(item, target) ==
    /\ item.contexts \cap target.kinds # {}
    /\ \E k \in DOMAIN target.urls : \E pat \in item.targetUrlPatterns :
          MatchesPattern(target.urls[k], pat)

\* const mediaURL = info.srcUrl || info.linkUrl
mediaURL(info) == StringProp(info, "srcUrl", info["linkUrl"])

\* const videoUrl = info.linkUrl
videoUrl(info) == info["linkUrl"]

ClickedUrl(script, info) ==
    IF script = "part_001" THEN mediaURL(info) ELSE videoUrl(info)

\* whether the listener acts on the click
OnClickedGuard(info) == info["menuItemId"] = "viewInLocalMediaPlayer"

\* contextMenus.onClicked: the listener resolves the URL and asks storage for
\* the player and the port
OnClicked ==
    /\ events < MaxEvents
    /\ events' = events + 1
    /\ \E i \in DOMAIN menu : \E target \in ClickTargets :
         /\ ItemShown(menu[i], target)
         /\ LET info == target.urls @@ [menuItemId |-> menu[i].id]
            IN  clicks' =
                    IF OnClickedGuard(info)
                    THEN Append(clicks, [url |-> ClickedUrl(background, info),
                                         pc |-> "get",
                                         read |-> EmptyObject,
                                         outcome |-> [kind |-> "pending"]])
                    ELSE clicks
    /\ UNCHANGED << background, popup, followDetached, storeVars, menu, updates, installGets,
                    requests, notifications, popupPc, formVars, alertVars, call >>

\* const launchUrl = `http://localhost:${port}/launch?player=...&media_url=...`
launchUrl(port, defaultMediaPlayer, url) ==
    "http://localhost:" \o ToString(port) \o "/launch?player=" \o defaultMediaPlayer
        \o "&media_url=" \o encodeURIComponent(url)

\* the request of the click handler: fetch(launchUrl, {cache: "no-store"})
Fetch_part_001(result, url) ==
    LET defaultMediaPlayer == StringProp(result, "defaultMediaPlayer", "vlc")
        port               == NumberProp(result, "serverPort", 26270)
    IN  [url |-> launchUrl(port, defaultMediaPlayer, url), cache |-> "no-store"]

\* the request of the older click handler: fetch(launchUrl), video_url
Fetch_background_js(result, url) ==
    LET defaultPlayer == StringProp(result, "defaultPlayer", "vlc")
        port          == NumberProp(result, "serverPort", 26270)
    IN  [url |-> "http://localhost:" \o ToString(port) \o "/launch?player="
                    \o defaultPlayer \o "&video_url=" \o encodeURIComponent(url),
         cache |-> "default"]

Fetch(script, result, url) ==
    IF script = "part_001" THEN Fetch_part_001(result, url)
    ELSE Fetch_background_js(result, url)

\* the callback of the click handler's read issues the launch request
OnClickedGet(c) ==
    /\ clicks[c].pc = "get"
    /\ requests' = Append(requests,
            [click |-> c] @@
            Fetch(background, StorageGet({PlayerKey(background), "serverPort"}),
                  clicks[c].url))
    /\ clicks' = [clicks EXCEPT ![c].pc = "fetch", ![c].read = store]
    /\ UNCHANGED << background, popup, followDetached, storeVars, menu, updates, installGets,
                    notifications, popupPc, formVars, events, alertVars, call >>

\* how a fetch ends: a response with a status, or a rejection
LaunchStatuses == {200, 204, 404, 500}

NetworkErrors == {"Failed to fetch", "NetworkError when attempting to fetch resource."}

LaunchOutcomes ==
    [kind : {"response"}, status : LaunchStatuses]
        \cup [kind : {"error"}, message : NetworkErrors]

ResponseOk(status) == status >= 200 /\ status <= 299

\* the error the promise chain ends with: << >> when it is fulfilled
LaunchError(outcome) ==
    IF outcome.kind = "error" THEN << outcome.message >>
    ELSE IF ~ResponseOk(outcome.status)
         THEN << "Server error: " \o ToString(outcome.status) >>
         ELSE << >>

\* error.message === "Failed to fetch" || "NetworkError ..." ? helper text : error.message
\* (=== binds tighter than ||, and || tighter than ?:, so the condition is the
\* comparison or else the non-empty string literal)
errorMessage(message) ==
    IF (message = "Failed to fetch")
         \/ ("NetworkError when attempting to fetch resource." # "")
    THEN "Windows helper app is not connected. Please open settings page of this extension to check/configure helper app connection."
    ELSE message

\* the notification of the catch handler
Notification_part_001(message) ==
    [type |-> "basic", iconUrl |-> "images/icon.png",
     title |-> "Media player launch failed!", message |-> errorMessage(message)]

Notification_background_js(message) ==
    [type |-> "basic", iconUrl |-> "icon.png",
     title |-> "Error", message |-> message]

Notification(script, message) ==
    IF script = "part_001" THEN Notification_part_001(message)
    ELSE Notification_background_js(message)

\* the launch request of click c ends: nothing on success, a notification
\* on failure
LaunchSettled(c) ==
    /\ clicks[c].pc = "fetch"
    /\ \E outcome \in LaunchOutcomes :
         LET error == LaunchError(outcome)
         IN  /\ notifications' =
                    IF error = << >> THEN notifications
                    ELSE Append(notifications,
                                [click |-> c] @@ Notification(background, error[1]))
             /\ clicks' = [clicks EXCEPT ![c].pc = "done", ![c].outcome = outcome]
    /\ UNCHANGED << background, popup, followDetached, storeVars, menu, updates, installGets,
                    requests, popupPc, formVars, events, alertVars, call >>

(***************************************************************************)
(* Popup script: loading the settings, the player options, Save            *)
(***************************************************************************)
\* the storage key each popup script keeps the player under
PopupPlayerKey_popup_js == "defaultMediaPlayer"

PopupPlayerKey_part_000 == "defaultPlayer"

PopupPlayerKey(script) ==
    IF script = "part_000" THEN PopupPlayerKey_part_000 ELSE PopupPlayerKey_popup_js

\* the player the load callback shows: result.defaultMediaPlayer || "vlc",
\* and result.defaultPlayer || "mpc" in the older popup
LoadedPlayer_popup_js(result) == StringProp(result, "defaultMediaPlayer", "vlc")

LoadedPlayer_part_000(result) == StringProp(result, "defaultPlayer", "mpc")

LoadedPlayer(script, result) ==
    IF script = "part_000" THEN LoadedPlayer_part_000(result)
    ELSE LoadedPlayer_popup_js(result)

\* a faulty variant, for sensitivity: nothing is cleared
clearAlerts_Keep(container) == container

\* clearAlerts()
clearAlerts(container) == << >>

\* element.remove()
Remove(container, id) == SelectSeq(container, LAMBDA e : e.id # id)

InContainer(id) == \E i \in DOMAIN alertContainer : alertContainer[i].id = id

PlaceholderHtml ==
    "<span><strong>Checking windows helper app connection&hellip;</strong></span>"

\* a timer is never cancelled: it stays pending when its alert leaves the
\* message area, and when it fires it finds the alert detached
\* (alertDiv.parentNode is null).  Unless followDetached, only the timers of
\* the alerts still in the area are kept
StillPending(ts, container) ==
    IF followDetached THEN ts
    ELSE {t \in ts : \E i \in DOMAIN container : container[i].id = t.element}

\* checkServerStatus(), up to its storage read: the message area holds the
\* placeholder alone and a status check is in flight
checkServerStatus ==
    LET placeholderAlert == [id |-> elements + 1, className |-> "alert alert-info",
                             html |-> PlaceholderHtml, closeBtn |-> FALSE]
    IN  /\ alertContainer' = Append(clearAlerts(alertContainer), placeholderAlert)
        /\ elements' = elements + 1
        /\ checks' = Append(checks, [placeholderAlert |-> elements + 1, pc |-> "get",
                                     alert |-> 0])
        /\ timers' = StillPending(timers, alertContainer')
        /\ UNCHANGED << settled, statusRequests >>

iconHTML(type) ==
    IF type = "success"
    THEN "<img src=\"images/checkmark.svg\" width=\"16\" class=\"alert-icon noselect\" draggable=\"false\">"
    ELSE IF type = "danger"
    THEN "<img src=\"images/error.svg\" width=\"16\" class=\"alert-icon noselect\" draggable=\"false\">"
    ELSE ""

\* getAlertIcon(type) of the third popup script: the img element, as markup
getAlertIcon(type) ==
    IF type = "success"
    THEN "<img src=\"images/checkmark.svg\" width=\"16\" class=\"alert-icon noselect\" draggable=\"false\">"
    ELSE IF type = "danger"
    THEN "<img src=\"images/error.svg\" width=\"16\" class=\"alert-icon noselect\" draggable=\"false\">"
    ELSE ""

\* the delay of the auto-dismiss timer, in milliseconds
AutoDismissMs_popup_js == 240000

AutoDismissMs_part_000 == 180000

AutoDismissMs_background_js == 240000

AutoDismissMs(script) ==
    IF script = "popup.js" THEN AutoDismissMs_popup_js
    ELSE IF script = "part_000" THEN AutoDismissMs_part_000
    ELSE AutoDismissMs_background_js

\* showAlert(message, type) on a message area: the new alert replaces what is
\* shown and gets a close button and an auto-dismiss timer
showAlert(container, message, type) ==
    LET alertDiv == [id |-> elements + 1, className |-> "alert alert-" \o type,
                     html |-> iconHTML(type) \o message, closeBtn |-> TRUE]
    IN  /\ alertContainer' = Append(clearAlerts(container), alertDiv)
        /\ elements' = elements + 1
        /\ timers' = StillPending(timers \cup {[element |-> elements + 1,
                                                  delay |-> AutoDismissMs(popup)]},
                                   alertContainer')

\* showAlertElement(content, type) of the third popup script: the same, with
\* the content element (given as its markup) put in as it is
showAlertElement(container, content, type) ==
    LET alertDiv == [id |-> elements + 1, className |-> "alert alert-" \o type,
                     html |-> content, closeBtn |-> TRUE]
    IN  /\ alertContainer' = Append(clearAlerts(container), alertDiv)
        /\ elements' = elements + 1
        /\ timers' = StillPending(timers \cup {[element |-> elements + 1,
                                                  delay |-> AutoDismissMs(popup)]},
                                   alertContainer')

\* the alert function of each popup script applied to that script's message
Show(script, container, message, content, type) ==
    IF script = "background.js" THEN showAlertElement(container, content, type)
    ELSE showAlert(container, message, type)

\* the popup document is ready (the options are checked as its markup has
\* them): the handlers are registered and the settings are asked from storage
DOMContentLoaded ==
    /\ popupPc = "closed"
    /\ popupPc' = "loading"
    /\ mpc_checkbox' \in BOOLEAN
    /\ vlc_checkbox' \in BOOLEAN
    /\ UNCHANGED << background, popup, followDetached, storeVars, bgVars, portText,
                    app_connection_port, events, alertVars, call >>

\* the callback of the settings read fills the form and checks the helper
LoadSettings ==
    /\ popupPc = "loading"
    /\ popupPc' = "ready"
    /\ LET result == StorageGet({PopupPlayerKey(popup), "serverPort"})
           player == LoadedPlayer(popup, result)
           serverPort == NumberProp(result, "serverPort", 26270)
       IN  /\ portText' = ToString(serverPort)
           /\ app_connection_port' = ToString(serverPort)
           /\ mpc_checkbox' = IF player = "mpc" THEN TRUE
                              ELSE IF player = "vlc" THEN FALSE ELSE mpc_checkbox
           /\ vlc_checkbox' = IF player = "mpc" THEN FALSE
                              ELSE IF player = "vlc" THEN TRUE ELSE vlc_checkbox
    /\ checkServerStatus
    /\ UNCHANGED << background, popup, followDetached, storeVars, bgVars, events, call >>

\* a faulty variant, for sensitivity: the listener leaves the VLC option alone
MpcChange_NoDeselect ==
    /\ popupPc # "closed"
    /\ events < MaxEvents
    /\ events' = events + 1
    /\ mpc_checkbox' = ~mpc_checkbox
    /\ UNCHANGED << background, popup, followDetached, storeVars, bgVars, popupPc, vlc_checkbox,
                    portText, app_connection_port, alertVars, call >>

\* the user toggles the MPC-HC option; its change listener runs
MpcChange ==
    /\ popupPc # "closed"
    /\ events < MaxEvents
    /\ events' = events + 1
    /\ mpc_checkbox' = ~mpc_checkbox
    /\ vlc_checkbox' = IF mpc_checkbox' THEN FALSE ELSE vlc_checkbox
    /\ UNCHANGED << background, popup, followDetached, storeVars, bgVars, popupPc, portText,
                    app_connection_port, alertVars, call >>

\* the user toggles the VLC option; its change listener runs
VlcChange ==
    /\ popupPc # "closed"
    /\ events < MaxEvents
    /\ events' = events + 1
    /\ vlc_checkbox' = ~vlc_checkbox
    /\ mpc_checkbox' = IF vlc_checkbox' THEN FALSE ELSE mpc_checkbox
    /\ UNCHANGED << background, popup, followDetached, storeVars, bgVars, popupPc, portText,
                    app_connection_port, alertVars, call >>

\* the port field is a numeric input: its value is the text it shows when
\* that text is a number (digits, with an optional sign and fraction), and
\* the empty string otherwise
RECURSIVE AllDigits(_)
AllDigits(s) == s = "" \/ (IsDigit(charAt(s, 0)) /\ AllDigits(slice(s, 1)))

RECURSIVE IsDecimal(_)
IsDecimal(s) ==
    /\ s # ""
    /\ IsDigit(charAt(s, 0))
    /\ \/ AllDigits(s)
       \/ /\ Len(s) >= 3
          /\ IF charAt(s, 1) = "." THEN AllDigits(slice(s, 2)) ELSE IsDecimal(slice(s, 1))

IsNumberText(text) ==
    IF text # "" /\ charAt(text, 0) = "-" THEN IsDecimal(slice(text, 1))
    ELSE IsDecimal(text)

NumberInputValue(text) == IF IsNumberText(text) THEN text ELSE ""

\* what the user types into the port field
PortTexts == {"", "12ab", "70000"}

PortInput ==
    /\ popupPc # "closed"
    /\ events < MaxEvents
    /\ events' = events + 1
    /\ \E text \in PortTexts :
         /\ text # portText
         /\ portText' = text
         /\ app_connection_port' = NumberInputValue(text)
    /\ UNCHANGED << background, popup, followDetached, storeVars, bgVars, popupPc, mpc_checkbox,
                    vlc_checkbox, alertVars, call >>

\* const selectedPlayer = mpc.checked ? "mpc" : (vlc.checked ? "vlc" : "")
selectedPlayer(mpc, vlc) == IF mpc THEN "mpc" ELSE IF vlc THEN "vlc" ELSE ""

\* a faulty variant, for sensitivity: no fallback, NaN is stored as 0
port_NoFallback(value) ==
    IF parseInt(value) = << >> THEN 0 ELSE parseInt(value)[1]

\* const port = parseInt(app_connection_port.value, 10) || 26270
port(value) == NumberOr(parseInt(value), 26270)

\* the items the Save handler hands to storage.local.set
SaveItems_popup_js(mpc, vlc, value) ==
    [defaultMediaPlayer |-> selectedPlayer(mpc, vlc), serverPort |-> port(value)]

SaveItems_part_000(mpc, vlc, value) ==
    [defaultPlayer |-> selectedPlayer(mpc, vlc), serverPort |-> port(value)]

SaveItems(script, mpc, vlc, value) ==
    IF script = "part_000" THEN SaveItems_part_000(mpc, vlc, value)
    ELSE SaveItems_popup_js(mpc, vlc, value)

\* the user clicks Save
SaveClick ==
    /\ popupPc # "closed"
    /\ events < MaxEvents
    /\ events' = events + 1
    /\ setQueue' = Append(setQueue,
                          SaveItems(popup, mpc_checkbox, vlc_checkbox,
                                    app_connection_port))
    /\ UNCHANGED << background, popup, followDetached, store, setCallbacks, changeQueue, bgVars,
                    popupPc, formVars, alertVars, call >>

SavedMessage == "<strong>Settings saved successfully!</strong>"

\* the message element the third popup script builds
SavedElement == "<span><strong>Settings saved successfully!</strong></span>"

\* the callback of a completed storage.local.set
SaveCallback ==
    /\ setCallbacks > 0
    /\ setCallbacks' = setCallbacks - 1
    /\ Show(popup, alertContainer, SavedMessage, SavedElement, "success")
    /\ UNCHANGED << background, popup, followDetached, store, setQueue, changeQueue, bgVars,
                    popupPc, formVars, events, checks, settled, statusRequests,
                    call >>

(***************************************************************************)
(* Popup script: the helper status check and the message area              *)
(***************************************************************************)
\* the user clicks the Status button
StatusClick ==
    /\ popupPc # "closed"
    /\ events < MaxEvents
    /\ events' = events + 1
    /\ checkServerStatus
    /\ UNCHANGED << background, popup, followDetached, storeVars, bgVars, popupPc, formVars, call >>

\* a faulty variant, for sensitivity: the port is taken from the port field
StatusFetch_popup_js_FromField(result) ==
    [url |-> "http://localhost:"
                \o (IF app_connection_port = "" THEN "26270" ELSE app_connection_port)
                \o "/status",
     cache |-> "no-store"]

\* the request of a status check: fetch(`http://localhost:${port}/status`, ...)
StatusFetch_popup_js(result) ==
    [url |-> "http://localhost:" \o ToString(NumberProp(result, "serverPort", 26270))
                \o "/status",
     cache |-> "no-store"]

StatusFetch_part_000(result) ==
    [url |-> "http://localhost:" \o ToString(NumberProp(result, "serverPort", 26270))
                \o "/status",
     cache |-> "default"]

StatusFetch(script, result) ==
    IF script = "part_000" THEN StatusFetch_part_000(result)
    ELSE StatusFetch_popup_js(result)

\* the callback of the status check's read issues the status request
CheckGet(k) ==
    /\ checks[k].pc = "get"
    /\ statusRequests' = statusRequests \cup
            {[check |-> k] @@ StatusFetch(popup, StorageGet({"serverPort"}))}
    /\ checks' = [checks EXCEPT ![k].pc = "fetch"]
    /\ UNCHANGED << background, popup, followDetached, storeVars, bgVars, popupPc, formVars,
                    events, alertContainer, timers, elements, settled, call >>

\* how a status request ends: a response with a status and a body that is
\* JSON with a version, JSON without one, or no JSON; or a rejection
StatusOutcomes ==
    [kind : {"response"}, status : {200},
     json : {<< [version |-> "1.2.0"] >>, << EmptyObject >>, << >>}]
        \cup [kind : {"response"}, status : {404}, json : {<< >>}]
        \cup [kind : {"error"}, message : {"Failed to fetch"}]

\* whether both then handlers of the status check are fulfilled
StatusFulfilled(outcome) ==
    outcome.kind = "response" /\ ResponseOk(outcome.status) /\ outcome.json # << >>

\* a faulty variant, for sensitivity: the version is not shown
ConnectedMessage_NoVersion(data) ==
    "<strong>Windows helper app is connected.</strong>"

ConnectedMessage(data) ==
    "<strong>Windows helper app v" \o StringProp(data, "version", "undefined")
        \o " is connected.</strong>"

\* a faulty variant, for sensitivity: no guidance after the headline
NotRunningMessage_popup_js_Bare ==
    "<strong>Windows helper app is not running.</strong>"

\* the message of the catch handler (the line breaks and indentation between
\* its elements, which HTML does not render, are left out)
NotRunningMessage_popup_js ==
    "<strong>Windows helper app is not running.</strong>"
    \o "<div style=\"margin:8px 0px\">For this extension to work, you will need to install and run a small native windows application which is used to launch VLC / MPC-HC.</div>"
    \o "<div style=\"margin:8px 0px\">Please <a href=\"https://github.com/jaswinder-singh/Open-in-VLC-MPCHC-Browser-Extension/releases/latest\" target=\"_Blank\" title=\"Click here to download helper app\">download and run windows helper app</a>.</div>"
    \o "<div>If helper app is already running on your computer, make sure port number entered below matches the port used in helper app settings.</div>"

\* the older popup's link has no title
NotRunningMessage_part_000 ==
    "<strong>Windows helper app is not running.</strong>"
    \o "<div style=\"margin:8px 0px\">For this extension to work, you will need to install and run a small native windows application which is used to launch VLC / MPC-HC.</div>"
    \o "<div style=\"margin:8px 0px\">Please <a href=\"https://github.com/jaswinder-singh/Open-in-VLC-MPCHC-Browser-Extension/releases/latest\" target=\"_Blank\">download and run windows helper app</a>.</div>"
    \o "<div>If helper app is already running on your computer, make sure port number entered below matches the port used in helper app settings.</div>"

NotRunningMessage(script) ==
    IF script = "part_000" THEN NotRunningMessage_part_000
    ELSE NotRunningMessage_popup_js

\* the elements the third popup script builds for the two results
ConnectedElement(data) ==
    "<span>" \o getAlertIcon("success")
        \o "<strong>Windows helper app v" \o StringProp(data, "version", "undefined")
        \o " is connected.</strong></span>"

NotRunningElement ==
    "<div>" \o getAlertIcon("danger")
    \o "<strong>Windows helper app is not running.</strong>"
    \o "<div style=\"margin: 6px 0px;\">For this extension to work, you will need to install and run a small native Windows application which is used to launch VLC / MPC-HC.</div>"
    \o "<div style=\"margin: 6px 0px;\">Please <a href=\"https://github.com/jaswinder-singh/Open-in-VLC-MPCHC-Browser-Extension/releases/latest\" target=\"_blank\" title=\"Click here to download helper app\">download and run Windows helper app</a></div>"
    \o "<div>If the helper app is already running, make sure the port number entered below matches the port used in helper app settings.</div>"
    \o "</div>"

\* a faulty variant, for sensitivity: a response is never delivered to a check
\* once a later check has been started
CheckSettled_Superseded(k) ==
    /\ checks[k].pc = "fetch"
    /\ ~(\E j \in DOMAIN checks : j > k)
    /\ \E outcome \in StatusOutcomes :
         /\ IF StatusFulfilled(outcome)
            THEN Show(popup, Remove(alertContainer, checks[k].placeholderAlert),
                      ConnectedMessage(outcome.json[1]),
                      ConnectedElement(outcome.json[1]), "success")
            ELSE Show(popup, Remove(alertContainer, checks[k].placeholderAlert),
                      NotRunningMessage(popup), NotRunningElement, "danger")
         /\ checks' = [checks EXCEPT ![k].pc = "done", ![k].alert = elements + 1]
         /\ settled' = outcome
    /\ UNCHANGED << background, popup, followDetached, storeVars, bgVars, popupPc, formVars,
                    events, statusRequests, call >>

\* a faulty variant, for sensitivity: the response of a check is dropped once
\* a check issued after it has ended
CheckSettled_IssueOrder(k) ==
    /\ checks[k].pc = "fetch"
    /\ \E outcome \in StatusOutcomes :
         /\ IF \E j \in DOMAIN checks : j > k /\ checks[j].pc = "done"
            THEN UNCHANGED << alertContainer, elements, timers >>
            ELSE IF StatusFulfilled(outcome)
            THEN Show(popup, Remove(alertContainer, checks[k].placeholderAlert),
                      ConnectedMessage(outcome.json[1]),
                      ConnectedElement(outcome.json[1]), "success")
            ELSE Show(popup, Remove(alertContainer, checks[k].placeholderAlert),
                      NotRunningMessage(popup), NotRunningElement, "danger")
         /\ checks' = [checks EXCEPT ![k].pc = "done", ![k].alert = elements + 1]
         /\ settled' = outcome
    /\ UNCHANGED << background, popup, followDetached, storeVars, bgVars, popupPc, formVars,
                    events, statusRequests, call >>

\* the status request of check k ends: the placeholder is removed and the
\* result is shown
CheckSettled(k) ==
    /\ checks[k].pc = "fetch"
    /\ \E outcome \in StatusOutcomes :
         /\ IF StatusFulfilled(outcome)
            THEN Show(popup, Remove(alertContainer, checks[k].placeholderAlert),
                      ConnectedMessage(outcome.json[1]),
                      ConnectedElement(outcome.json[1]), "success")
            ELSE Show(popup, Remove(alertContainer, checks[k].placeholderAlert),
                      NotRunningMessage(popup), NotRunningElement, "danger")
         /\ checks' = [checks EXCEPT ![k].pc = "done", ![k].alert = elements + 1]
         /\ settled' = outcome
    /\ UNCHANGED << background, popup, followDetached, storeVars, bgVars, popupPc, formVars,
                    events, statusRequests, call >>

\* the user clicks the close button of a shown alert
CloseClick ==
    /\ \E i \in DOMAIN alertContainer :
         /\ alertContainer[i].closeBtn
         /\ alertContainer' = Remove(alertContainer, alertContainer[i].id)
    /\ timers' = StillPending(timers, alertContainer')
    /\ UNCHANGED << background, popup, followDetached, storeVars, bgVars, popupPc, formVars,
                    events, elements, checks, settled, statusRequests, call >>

\* a faulty variant, for sensitivity: the timer clears the message area
Timeout_ClearsArea ==
    /\ \E t \in timers :
         /\ timers' = timers \ {t}
         /\ alertContainer' = clearAlerts(alertContainer)
    /\ UNCHANGED << background, popup, followDetached, storeVars, bgVars, popupPc,
                    formVars, events, elements, checks, settled, statusRequests,
                    call >>

\* a faulty variant, for sensitivity: the timer fires and the alert stays
Timeout_KeepsAlert ==
    /\ \E t \in timers : timers' = timers \ {t}
    /\ UNCHANGED << background, popup, followDetached, storeVars, bgVars, popupPc, formVars,
                    events, alertContainer, elements, checks, settled,
                    statusRequests, call >>

\* the auto-dismiss timer of an alert fires
Timeout ==
    /\ \E t \in timers :
         /\ timers' = timers \ {t}
         /\ alertContainer' = IF InContainer(t.element)
                              THEN Remove(alertContainer, t.element)
                              ELSE alertContainer
    /\ UNCHANGED << background, popup, followDetached, storeVars, bgVars, popupPc, formVars,
                    events, elements, checks, settled, statusRequests, call >>

(***************************************************************************)
(* The extension as a whole                                                *)
(***************************************************************************)
NoCall == [fn |-> "none"]

\* nothing stored, no menu item, nothing in flight, the popup closed
InitState ==
    /\ store = EmptyObject
    /\ setQueue = << >>
    /\ setCallbacks = 0
    /\ changeQueue = << >>
    /\ menu = << >>
    /\ updates = 0
    /\ events = 0
    /\ installGets = << >>
    /\ clicks = << >>
    /\ requests = << >>
    /\ notifications = << >>
    /\ popupPc = "closed"
    /\ mpc_checkbox = FALSE
    /\ vlc_checkbox = FALSE
    /\ portText = ""
    /\ app_connection_port = ""
    /\ alertContainer = << >>
    /\ timers = {}
    /\ elements = 0
    /\ checks = << >>
    /\ settled = [kind |-> "none"]
    /\ statusRequests = {}
    /\ call = NoCall

Init ==
    /\ background \in BackgroundScripts
    /\ popup \in PopupScripts
    /\ followDetached = FALSE
    /\ InitState

\* the preference and launch flow: the background script, storage, and the
\* form and Save button of the popup (the popup's status request stays in flight)
Next ==
    \/ OnInstalled
    \/ OnInstalledRead
    \/ OnInstalledGet
    \/ StorageSet
    \/ OnChanged
    \/ OnClicked
    \/ \E c \in DOMAIN clicks : OnClickedGet(c)
    \/ \E c \in DOMAIN clicks : LaunchSettled(c)
    \/ DOMContentLoaded
    \/ LoadSettings
    \/ MpcChange
    \/ VlcChange
    \/ PortInput
    \/ SaveClick
    \/ SaveCallback

Spec == Init /\ [][Next]_vars

\* the popup and its message area: loading, Save, the status check, the
\* alerts (edits of the form, which no message depends on, are left to Spec)
InitPopup ==
    /\ background = "part_001"
    /\ popup \in MessagePopupScripts
    /\ followDetached = FALSE
    /\ InitState

NextPopup ==
    \/ StorageSet
    \/ DOMContentLoaded
    \/ LoadSettings
    \/ SaveClick
    \/ SaveCallback
    \/ StatusClick
    \/ \E k \in DOMAIN checks : CheckGet(k)
    \/ \E k \in DOMAIN checks : CheckSettled(k)
    \/ CloseClick
    \/ Timeout

SpecPopup == InitPopup /\ [][NextPopup]_vars

\* the popup with every timer followed until it fires, for the current
\* popup scripts
InitTimers ==
    /\ background = "part_001"
    /\ popup \in {"popup.js", "background.js"}
    /\ followDetached = TRUE
    /\ InitState

SpecTimers == InitTimers /\ [][NextPopup]_vars

\* the current revision (part_001 with popup.js) with its requests in flight
\* together: menu clicks and their launch requests, the popup's status
\* checks, saves.  A storage read calls its callback and a fetch is settled
\* by the platform (a response, or a rejection when the connection fails or
\* times out), so each pending callback runs in the end.
InitLive ==
    /\ background = "part_001"
    /\ popup = "popup.js"
    /\ followDetached = FALSE
    /\ InitState

NextLive ==
    \/ OnInstalled
    \/ OnInstalledRead
    \/ OnInstalledGet
    \/ StorageSet
    \/ OnClicked
    \/ \E c \in DOMAIN clicks : OnClickedGet(c)
    \/ \E c \in DOMAIN clicks : LaunchSettled(c)
    \/ DOMContentLoaded
    \/ LoadSettings
    \/ SaveClick
    \/ SaveCallback
    \/ StatusClick
    \/ \E k \in DOMAIN checks : CheckGet(k)
    \/ \E k \in DOMAIN checks : CheckSettled(k)

\* at most one check on load and one check or click per event
MaxInFlight == MaxEvents + 1

SpecLive ==
    /\ InitLive
    /\ [][NextLive]_vars
    /\ \A c \in 1..MaxInFlight : WF_vars(c \in DOMAIN clicks /\ OnClickedGet(c))
    /\ \A c \in 1..MaxInFlight : WF_vars(c \in DOMAIN clicks /\ LaunchSettled(c))
    /\ \A k \in 1..MaxInFlight : WF_vars(k \in DOMAIN checks /\ CheckGet(k))
    /\ \A k \in 1..MaxInFlight : WF_vars(k \in DOMAIN checks /\ CheckSettled(k))

\* the current revision with every listener and handler of its scripts: the
\* background script part_001 with the popup script popup.js or with the one
\* at the end of background.js, which keep the player under the same key
InitAll ==
    /\ background = "part_001"
    /\ popup \in {"popup.js", "background.js"}
    /\ followDetached = FALSE
    /\ InitState

NextAll ==
    \/ OnInstalled
    \/ OnInstalledRead
    \/ OnInstalledGet
    \/ StorageSet
    \/ OnChanged
    \/ OnClicked
    \/ \E c \in DOMAIN clicks : OnClickedGet(c)
    \/ \E c \in DOMAIN clicks : LaunchSettled(c)
    \/ DOMContentLoaded
    \/ LoadSettings
    \/ MpcChange
    \/ VlcChange
    \/ PortInput
    \/ SaveClick
    \/ SaveCallback
    \/ StatusClick
    \/ \E k \in DOMAIN checks : CheckGet(k)
    \/ \E k \in DOMAIN checks : CheckSettled(k)
    \/ CloseClick
    \/ Timeout

SpecAll == InitAll /\ [][NextAll]_vars

(***************************************************************************)
(* The pure functions of the background script, applied to every input up  *)
(* to a length.                                                            *)
(***************************************************************************)
\* the strings over an alphabet, up to n characters
RECURSIVE StringsOver(_, _)
StringsOver(alphabet, n) ==
    IF n = 0 THEN {""}
    ELSE LET shorter == StringsOver(alphabet, n - 1)
         IN  shorter \cup {s \o c : s \in shorter, c \in alphabet}

PlayerChars == {"v", "l", "c", "m", "p", "X", "7"}

\* stored player values
PlayerStrings == StringsOver(PlayerChars, MaxLen)

UrlChars == {"a", " ", "&", "?", "%", "=", "#", "2"}

\* media URLs: a link or source URL, reserved characters included
MediaUrls == {"http://h/" \o s : s \in StringsOver(UrlChars, MaxLen)}

LaunchPorts == {26270, 8080}

LaunchPlayers == {"vlc", "mpc"}

CallGetMediaPlayerDisplayName ==
    /\ call = NoCall
    /\ \E player \in PlayerStrings :
         call' = [fn |-> "getMediaPlayerDisplayName", player |-> player,
                  ret |-> getMediaPlayerDisplayName(player)]
    /\ UNCHANGED << background, popup, followDetached, storeVars, bgVars, popupPc, formVars,
                    events, alertVars >>

CallGetPlayerDisplayName ==
    /\ call = NoCall
    /\ \E player \in PlayerStrings :
         call' = [fn |-> "getPlayerDisplayName", player |-> player,
                  ret |-> getPlayerDisplayName(player)]
    /\ UNCHANGED << background, popup, followDetached, storeVars, bgVars, popupPc, formVars,
                    events, alertVars >>

CallLaunchUrl ==
    /\ call = NoCall
    /\ \E n \in LaunchPorts, player \in LaunchPlayers, url \in MediaUrls :
         call' = [fn |-> "launchUrl", port |-> n, player |-> player,
                  mediaURL |-> url, ret |-> launchUrl(n, player, url)]
    /\ UNCHANGED << background, popup, followDetached, storeVars, bgVars, popupPc, formVars,
                    events, alertVars >>

\* the info objects the browser can hand the click listener of a script:
\* the script's item is shown on links only in background.js (which therefore
\* always gets a linkUrl) and on links and media elements in part_001; the
\* listener also gets the clicks on any other item of the extension
ClickInfos(script) ==
    {target.urls @@ [menuItemId |-> id] :
        target \in {t \in ClickTargets :
                        script = "part_001" \/ "linkUrl" \in DOMAIN t.urls},
        id \in {"viewInLocalMediaPlayer", "someOtherItem"}}

\* the click listener applied to an info object, the storage read returning
\* result: the URLs it requests
CallOnClicked ==
    /\ call = NoCall
    /\ \E info \in ClickInfos(background) :
       \E result \in {EmptyObject, [serverPort |-> 8080]} :
         call' = [fn |-> "onClicked", info |-> info,
                  ret |-> IF OnClickedGuard(info)
                          THEN << Fetch(background, result,
                                        ClickedUrl(background, info)).url >>
                          ELSE << >>]
    /\ UNCHANGED << background, popup, followDetached, storeVars, bgVars, popupPc, formVars,
                    events, alertVars >>

\* the storage areas an onChanged event can name
StorageAreas == {"local", "sync", "managed"}

\* the change of the player and of the port as an event reports them
PlayerChanges ==
    {[newValue |-> "mpc"], [oldValue |-> "mpc", newValue |-> "vlc"],
     [oldValue |-> "mpc"]}

PortChanges == {[newValue |-> 8080], [oldValue |-> 8080, newValue |-> 26270]}

\* the changes object of an event: a change for some of the player keys and,
\* with portChange = << c >>, the change c of the port
ChangesObject(players, portChange) ==
    players @@ (IF portChange = << >> THEN EmptyObject
                ELSE [k \in {"serverPort"} |-> portChange[1]])

\* the storage.onChanged listener applied to an event while the menu holds
\* the item as the install handler creates it for the player before
CallOnChanged ==
    /\ call = NoCall
    /\ \E area \in StorageAreas, before \in {"vlc", "mpc"} :
       \E keys \in SUBSET {"defaultMediaPlayer", "defaultPlayer"} :
       \E players \in [keys -> PlayerChanges] :
       \E portChange \in {<< >>} \cup {<< c >> : c \in PortChanges} :
         LET e     == [area |-> area, changes |-> ChangesObject(players, portChange)]
             m     == << CreateProperties(background,
                                          [k \in {PlayerKey(background)} |-> before]) >>
             call_ == OnChangedUpdate(background, e.changes, e.area)
         IN  call' = [fn |-> "onChanged", area |-> e.area, changes |-> e.changes,
                      menu |-> m,
                      ret |-> IF call_ = << >> THEN m
                              ELSE ContextMenusUpdate(m, call_[1].id, call_[1].title)]
    /\ UNCHANGED << background, popup, followDetached, storeVars, bgVars, popupPc, formVars,
                    events, alertVars >>

Return ==
    /\ call # NoCall
    /\ call' = NoCall
    /\ UNCHANGED << background, popup, followDetached, storeVars, bgVars, popupPc, formVars,
                    events, alertVars >>

NextFn ==
    \/ CallGetMediaPlayerDisplayName
    \/ CallGetPlayerDisplayName
    \/ CallLaunchUrl
    \/ CallOnClicked
    \/ CallOnChanged
    \/ Return

SpecFn == Init /\ [][NextFn]_vars

(***************************************************************************)
(* Properties.  What the specification expects is written here on its own  *)
(* terms, not through the operators of the scripts above.                  *)
(***************************************************************************)
\* the display names the specification gives the two players
DisplayName(p) ==
    IF p = "vlc" THEN "VLC"
    ELSE IF p = "mpc" THEN "Media Player Classic (MPC-HC)" ELSE "?"

\* a stored value as the specification reads it back: unset or empty is vlc,
\* an unset port is 26270
ReadPlayer(items, key) ==
    IF key \in DOMAIN items /\ items[key] # "" THEN items[key] ELSE "vlc"

ReadPort(items) ==
    IF "serverPort" \in DOMAIN items THEN items["serverPort"] ELSE 26270

NotificationsOf(c) == {i \in DOMAIN notifications : notifications[i].click = c}

RequestsOf(c) == {i \in DOMAIN requests : requests[i].click = c}

\* C1: when the launch request of a click has completed with a status c
\* outside 200..299, exactly one notification exists for that click, titled
\* "Media player launch failed!", with the message "Server error: c".
C1_NonOkStatusNotifiesServerError ==
    \A c \in DOMAIN clicks :
        (/\ clicks[c].pc = "done"
         /\ clicks[c].outcome.kind = "response"
         /\ ~(clicks[c].outcome.status \in 200..299))
        => /\ Cardinality(NotificationsOf(c)) = 1
           /\ \A i \in NotificationsOf(c) :
                /\ notifications[i].title = "Media player launch failed!"
                /\ notifications[i].message =
                       "Server error: " \o ToString(clicks[c].outcome.status)

\* C2: once a saved player has been written and every storage event and
\* install read has been handled, the title of the existing menu item is
\* "Open in " followed by the display name of the player the popup saved
\* (the key the popup writes is the key the background script follows).
C2_SavedPlayerRelabelsMenu ==
    (/\ menu # << >>
     /\ setQueue = << >>
     /\ changeQueue = << >>
     /\ installGets = << >>
     /\ PopupPlayerKey(popup) \in DOMAIN store)
    => \A i \in DOMAIN menu :
          menu[i].title =
              "Open in " \o DisplayName(ReadPlayer(store, PopupPlayerKey(popup)))

\* C3: a click whose storage read has returned has exactly one request, to
\* http://localhost:n/launch?player=p&media_url=<percent-encoded u> for the
\* stored player p, the stored port n and the clicked media URL u, with the
\* cache disabled; that stays so after the request has ended either way, and
\* a click still waiting for its read has no request.
C3_OneLaunchRequestPerClick ==
    \A c \in DOMAIN clicks :
        IF clicks[c].pc = "get" THEN RequestsOf(c) = {}
        ELSE /\ Cardinality(RequestsOf(c)) = 1
             /\ \A i \in RequestsOf(c) :
                  /\ requests[i].url =
                        "http://localhost:" \o ToString(ReadPort(clicks[c].read))
                          \o "/launch?player="
                          \o ReadPlayer(clicks[c].read, PopupPlayerKey(popup))
                          \o "&media_url=" \o encodeURIComponent(clicks[c].url)
                  /\ requests[i].cache = "no-store"

\* C4: once the popup has initialised, at no instant are both player options
\* selected, whatever toggles follow.
C4_AtMostOneOptionSelected ==
    popupPc = "ready" => ~(mpc_checkbox /\ vlc_checkbox)

\* C4 witness: the popup has loaded vlc (nothing stored) and the user has
\* then selected MPC-HC, which has deselected VLC.
C4_Witness ==
    /\ popup = "popup.js"
    /\ store = EmptyObject
    /\ setQueue = << >>
    /\ popupPc = "ready"
    /\ events = 1
    /\ mpc_checkbox
    /\ ~vlc_checkbox

\* C5: while the stored player is the empty value that a save with neither
\* option selected writes, every reader resolves it to vlc: the menu title
\* at install, the change listener, the launch request of a click and the
\* option the popup shows on opening.
C5_EmptyPlayerReadsAsVlc ==
    (PopupPlayerKey(popup) \in DOMAIN store /\ store[PopupPlayerKey(popup)] = "")
    => /\ CreateProperties(background, StorageGet({PopupPlayerKey(popup)})).title
              = "Open in VLC"
       /\ OnChangedUpdate(background,
                          [k \in {PopupPlayerKey(popup)} |-> [newValue |-> ""]],
                          "local")
              \in {<< >>, << [id |-> MenuItemId, title |-> "Open in VLC"] >>}
       /\ StartsWith(Fetch(background,
                           StorageGet({PopupPlayerKey(popup), "serverPort"}),
                           "http://h/v.mp4").url,
                     "http://localhost:" \o ToString(ReadPort(store))
                        \o "/launch?player=vlc&")
       /\ LoadedPlayer(popup, StorageGet({PopupPlayerKey(popup)})) = "vlc"

\* a step in which the Save handler hands its items to storage
SaveStep == Len(setQueue') = Len(setQueue) + 1

C7_StoredPortInRange ==
    "serverPort" \in DOMAIN store => store["serverPort"] \in 1..65535

\* a step in which the change listener handles an event that carries the
\* player key it listens for
PlayerChangeStep ==
    /\ changeQueue # << >>
    /\ changeQueue' = Tail(changeQueue)
    /\ Head(changeQueue).area = "local"
    /\ PlayerKey(background) \in DOMAIN Head(changeQueue).changes

\* C8: handling a change event for the player key sets the title of the
\* existing menu item to "Open in " followed by the display name of the new
\* value (an empty or removed value read back as vlc) and leaves its id,
\* contexts and URL patterns as they were; no item is created or removed.
C8_ChangeEventRelabelsInPlace ==
    [][PlayerChangeStep
       => LET newPlayer ==
                  ReadPlayer(Head(changeQueue).changes[PlayerKey(background)],
                             "newValue")
          IN  /\ Len(menu') = Len(menu)
              /\ \A i \in DOMAIN menu :
                   /\ menu'[i].id = menu[i].id
                   /\ menu'[i].contexts = menu[i].contexts
                   /\ menu'[i].targetUrlPatterns = menu[i].targetUrlPatterns
                   /\ menu'[i].title = "Open in " \o DisplayName(newPlayer)]_vars

\* C8 witness: a change event has relabelled the existing item, which now
\* reads MPC-HC.
C8_Witness ==
    /\ updates >= 1
    /\ changeQueue = << >>
    /\ Len(menu) = 1
    /\ menu[1].id = MenuItemId
    /\ menu[1].title = "Open in Media Player Classic (MPC-HC)"

\* C9: the display-name mapping of either background script returns "VLC"
\* for vlc, "Media Player Classic (MPC-HC)" for mpc, and for every other
\* string the string itself with its first character upper-cased and
\* nothing else changed.
C9_DisplayNameMapping ==
    call.fn \in {"getMediaPlayerDisplayName", "getPlayerDisplayName"}
    => LET p == call.player
           r == call.ret
       IN  /\ p = "vlc" => r = "VLC"
           /\ p = "mpc" => r = "Media Player Classic (MPC-HC)"
           /\ p \notin {"vlc", "mpc"}
                => /\ Len(r) = Len(p)
                   /\ \A i \in 1..Len(p) :
                        SubSeq(r, i, i) =
                            IF i = 1 /\ SubSeq(p, 1, 1) \in Range(LowerCase)
                            THEN UpperCase[IndexOf(LowerCase, SubSeq(p, 1, 1))]
                            ELSE SubSeq(p, i, i)

\* C9 witness: the mapping has been applied to a string that is neither
\* player and has a lower-case letter after the first.
C9_Witness ==
    /\ call.fn = "getMediaPlayerDisplayName"
    /\ call.player = "mp7"
    /\ call.ret = "Mp7"

\* the text after the first separator, or "" when there is none
RECURSIVE After(_, _)
After(s, sep) ==
    IF s = "" THEN ""
    ELSE IF SubSeq(s, 1, 1) = sep THEN SubSeq(s, 2, Len(s))
    ELSE After(SubSeq(s, 2, Len(s)), sep)

\* the text before the first separator, or all of it when there is none
RECURSIVE Before(_, _)
Before(s, sep) ==
    IF s = "" \/ SubSeq(s, 1, 1) = sep THEN ""
    ELSE SubSeq(s, 1, 1) \o Before(SubSeq(s, 2, Len(s)), sep)

Has(s, c) == \E i \in 1..Len(s) : SubSeq(s, i, i) = c

\* the parameters of a query string, as a receiver splits them at "&"
RECURSIVE QueryParams(_)
QueryParams(q) ==
    IF ~Has(q, "&") THEN << q >>
    ELSE << Before(q, "&") >> \o QueryParams(After(q, "&"))

\* the query string of a URL: after the first "?", up to the fragment
QueryOf(url) == Before(After(url, "?"), "#")

\* one pass of percent-decoding, as a receiver does it
RECURSIVE PercentDecode(_)
PercentDecode(s) ==
    IF s = "" THEN ""
    ELSE IF SubSeq(s, 1, 1) = "%" /\ Len(s) >= 3
              /\ \E e \in Range(UriEscaped) : e[2] = SubSeq(s, 1, 3)
         THEN (CHOOSE e \in Range(UriEscaped) : e[2] = SubSeq(s, 1, 3))[1]
                  \o PercentDecode(SubSeq(s, 4, Len(s)))
         ELSE SubSeq(s, 1, 1) \o PercentDecode(SubSeq(s, 2, Len(s)))

\* C10: in the launch URL the media URL is percent-encoded once: the query
\* string splits into exactly the player and the media_url parameter, the
\* media_url value holds no reserved character (only unreserved ones and
\* the "%" of an escape), and decoding it once gives the media URL back.
C10_MediaUrlEncodedOnce ==
    call.fn = "launchUrl"
    => LET params == QueryParams(QueryOf(call.ret))
       IN  /\ Len(params) = 2
           /\ params[1] = "player=" \o call.player
           /\ Before(params[2], "=") = "media_url"
           /\ LET value == After(params[2], "=")
              IN  /\ \A i \in 1..Len(value) :
                        SubSeq(value, i, i) \in UriUnreserved \cup {"%"}
                  /\ PercentDecode(value) = call.mediaURL

\* C10 witness: a launch URL has been built for a media URL holding a
\* space, an ampersand and a question mark.
C10_Witness ==
    /\ call.fn = "launchUrl"
    /\ call.mediaURL = "http://h/ &?"
    /\ call.ret = "http://localhost:26270/launch?player=vlc&media_url=http%3A%2F%2Fh%2F%20%26%3F"

\* the message of the error a settled launch request threw: the rejection's
\* own message, or "Server error: c" for a response outside 200..299
ThrownMessage(outcome) ==
    IF outcome.kind = "error" THEN outcome.message
    ELSE "Server error: " \o ToString(outcome.status)

LaunchFailed(outcome) ==
    outcome.kind = "error"
        \/ (outcome.kind = "response" /\ ~(outcome.status \in 200..299))

HelperNotConnected ==
    "Windows helper app is not connected. Please open settings page of this extension to check/configure helper app connection."

\* C11: the notification of a failed launch carries the helper-not-connected
\* text when the request was rejected with the generic fetch failure, and
\* the thrown error's own message, unchanged, for every other error.
C11_NotificationMessageByErrorKind ==
    \A i \in DOMAIN notifications :
        LET outcome == clicks[notifications[i].click].outcome
        IN  notifications[i].message =
                IF outcome.kind = "error" THEN HelperNotConnected
                ELSE ThrownMessage(outcome)

\* C12: a click whose launch request succeeded has no notification, a click
\* whose request failed has exactly one, titled "Media player launch
\* failed!", and there are as many notifications as failed requests.
C12_OneNotificationPerFailure ==
    /\ \A c \in DOMAIN clicks :
         IF clicks[c].pc = "done" /\ LaunchFailed(clicks[c].outcome)
         THEN /\ Cardinality(NotificationsOf(c)) = 1
              /\ \A i \in NotificationsOf(c) :
                   notifications[i].title = "Media player launch failed!"
         ELSE NotificationsOf(c) = {}
    /\ Len(notifications) =
         Cardinality({c \in DOMAIN clicks :
                        clicks[c].pc = "done" /\ LaunchFailed(clicks[c].outcome)})

\* whether sub occurs in s
Contains(s, sub) ==
    \/ sub = ""
    \/ \E i \in 1..(Len(s) - Len(sub) + 1) :
          /\ SubSeq(s, i, i) = SubSeq(sub, 1, 1)
          /\ SubSeq(s, i, i + Len(sub) - 1) = sub

Shown(container, id) == \E i \in DOMAIN container : container[i].id = id

\* a step in which the status request of check k ends and its handlers run
CheckSettleStep(k) ==
    /\ checks[k].pc = "fetch"
    /\ k \in DOMAIN checks'
    /\ checks'[k].pc = "done"

\* a status request that ended with a 2xx response whose JSON body has a version
SettledWithVersion(outcome) ==
    /\ outcome.kind = "response"
    /\ outcome.status \in 200..299
    /\ outcome.json # << >>
    /\ "version" \in DOMAIN outcome.json[1]

\* a status request that ended with a response outside 2xx or was rejected
SettledFailed(outcome) ==
    \/ outcome.kind = "error"
    \/ outcome.kind = "response" /\ ~(outcome.status \in 200..299)

\* C13: when the status request of a check ends with a 2xx response whose
\* JSON body has a version v, the check's indicator is no longer in the
\* message area and the area shows one success alert whose text holds v.
C13_VersionShownOnSuccess ==
    [][\A k \in DOMAIN checks :
         (CheckSettleStep(k) /\ SettledWithVersion(settled'))
         => /\ ~Shown(alertContainer', checks[k].placeholderAlert)
            /\ Len(alertContainer') = 1
            /\ alertContainer'[1].className = "alert alert-success"
            /\ Contains(alertContainer'[1].html, settled'.json[1].version)]_vars

\* C13 witness: a check has ended with version 1.2.0 and its success alert
\* is the one shown.
C13_Witness ==
    /\ SettledWithVersion(settled)
    /\ settled.json[1].version = "1.2.0"
    /\ \E k \in DOMAIN checks :
         /\ checks[k].pc = "done"
         /\ Len(alertContainer) = 1
         /\ alertContainer[1].id = checks[k].alert
         /\ alertContainer[1].className = "alert alert-success"

HelperDownloadUrl ==
    "https://github.com/jaswinder-singh/Open-in-VLC-MPCHC-Browser-Extension/releases/latest"

\* C14: when the status request of a check fails (a response outside 2xx or
\* a rejection), the check's indicator is gone and the area shows one danger
\* alert with the helper-not-running headline and the download link; and in
\* no state does the area hold an indicator together with a danger alert.
C14_DangerShownOnFailure ==
    /\ [][/\ \A k \in DOMAIN checks :
               (CheckSettleStep(k) /\ SettledFailed(settled'))
               => /\ ~Shown(alertContainer', checks[k].placeholderAlert)
                  /\ Len(alertContainer') = 1
                  /\ alertContainer'[1].id = checks'[k].alert
                  /\ alertContainer'[1].className = "alert alert-danger"
          /\ ~(\E i, j \in DOMAIN alertContainer' :
                  /\ alertContainer'[i].className = "alert alert-info"
                  /\ alertContainer'[j].className = "alert alert-danger")]_vars
    /\ [](\A i \in DOMAIN alertContainer :
             alertContainer[i].className = "alert alert-danger"
             => /\ Contains(alertContainer[i].html,
                            "Windows helper app is not running.")
                /\ Contains(alertContainer[i].html, HelperDownloadUrl))

\* C14 witness: a check has ended with status 404 while a later check was
\* still in flight, and its danger alert is the one shown.
C14_Witness ==
    /\ settled.kind = "response"
    /\ settled.status = 404
    /\ \E k \in DOMAIN checks :
         /\ checks[k].pc = "done"
         /\ Len(alertContainer) = 1
         /\ alertContainer[1].id = checks[k].alert
         /\ alertContainer[1].className = "alert alert-danger"
         /\ \E later \in DOMAIN checks : later > k /\ checks[later].pc = "fetch"

\* C16: the message area never holds more than one element, and what it
\* holds is the element created last: every new indicator or alert has
\* replaced whatever was shown before it.
C16_SingleMessageSlot ==
    /\ Len(alertContainer) <= 1
    /\ alertContainer # << >> => alertContainer[1].id = elements

\* C16 witness: while a check was in flight a save completed, and its
\* success alert has replaced the indicator.
C16_Witness ==
    /\ Len(alertContainer) = 1
    /\ alertContainer[1].className = "alert alert-success"
    /\ \E k \in DOMAIN checks :
         /\ checks[k].pc = "fetch"
         /\ checks[k].placeholderAlert = alertContainer[1].id - 1

\* C15: the launch request of a click carries the port and the player that
\* were in the store when the click handler read it (26270 and vlc when
\* unset), the player being the one the popup saved; a save that completed
\* before the read is therefore the one the request shows.
C15_LaunchUsesStoredSettings ==
    \A c \in DOMAIN clicks :
        clicks[c].pc # "get"
        => /\ RequestsOf(c) # {}
           /\ \A i \in RequestsOf(c) :
                 StartsWith(requests[i].url,
                     "http://localhost:" \o ToString(ReadPort(clicks[c].read))
                         \o "/launch?player="
                         \o ReadPlayer(clicks[c].read, PopupPlayerKey(popup))
                         \o "&")

\* the timers pending for an element of the message area
TimersOf(id) == {t \in timers : t.element = id}

\* C17 as stated: every element of the message area, the "checking"
\* indicator included, has a close button and a pending auto-dismiss timer
\* of the fixed delay.
C17_EveryMessageDismissible ==
    \A i \in DOMAIN alertContainer :
        /\ alertContainer[i].closeBtn
        /\ \E t \in TimersOf(alertContainer[i].id) :
              t.delay = IF popup = "part_000" THEN 180000 ELSE 240000

\* C17 amended: every success or danger alert in the message area has a
\* close button and exactly one pending auto-dismiss timer, of 180000 ms in
\* part_000 and of 240000 ms in the other popup scripts; the "checking"
\* indicator has neither; and whenever a timer stops being pending (it
\* fired, or its alert was dismissed or replaced) its alert is out of the
\* area.
C17_AlertsDismissibleIndicatorNot ==
    /\ [](\A i \in DOMAIN alertContainer :
            IF alertContainer[i].className = "alert alert-info"
            THEN /\ ~alertContainer[i].closeBtn
                 /\ TimersOf(alertContainer[i].id) = {}
            ELSE /\ alertContainer[i].className
                        \in {"alert alert-success", "alert alert-danger"}
                 /\ alertContainer[i].closeBtn
                 /\ Cardinality(TimersOf(alertContainer[i].id)) = 1
                 /\ \A t \in TimersOf(alertContainer[i].id) :
                       t.delay = IF popup = "part_000" THEN 180000 ELSE 240000)
    /\ [][\A t \in timers :
            t \notin timers' => ~Shown(alertContainer', t.element)]_vars

\* C17 witness: in the part_000 build the danger alert of a finished check
\* is shown with its close button, its 180000 ms timer pending.
C17_Witness ==
    /\ popup = "part_000"
    /\ \E k \in DOMAIN checks :
         /\ checks[k].pc = "done"
         /\ Len(alertContainer) = 1
         /\ alertContainer[1].id = checks[k].alert
         /\ alertContainer[1].className = "alert alert-danger"
         /\ alertContainer[1].closeBtn
         /\ [element |-> checks[k].alert, delay |-> 180000] \in timers

\* the checks whose status request has been issued, and those whose request
\* has ended
IssuedChecks == {k \in DOMAIN checks : checks[k].pc \in {"fetch", "done"}}

DoneChecks == {k \in DOMAIN checks : checks[k].pc = "done"}

\* the alert class the specification gives an outcome of the status request
ResultClasses(outcome) ==
    IF SettledWithVersion(outcome) THEN {"alert alert-success"}
    ELSE IF SettledFailed(outcome) THEN {"alert alert-danger"}
    ELSE {"alert alert-success", "alert alert-danger"}

\* C19: overlapping status checks are not de-duplicated (every check whose
\* read has returned has a status request of its own) and their responses
\* are taken in the order they land: the step in which a response lands
\* leaves its own result as the message shown, whatever the order of issue,
\* so a check result that is shown is always that of the response that
\* landed last.
C19_LastResponseWins ==
    /\ [](/\ Cardinality(statusRequests) = Cardinality(IssuedChecks)
          /\ \A k \in IssuedChecks : \E r \in statusRequests : r.check = k
          /\ \A k \in DoneChecks :
               Shown(alertContainer, checks[k].alert)
               => /\ \A j \in DoneChecks : checks[j].alert <= checks[k].alert
                  /\ \A i \in DOMAIN alertContainer :
                        alertContainer[i].className \in ResultClasses(settled))
    /\ [][\A k \in DOMAIN checks :
            CheckSettleStep(k)
            => /\ Len(alertContainer') = 1
               /\ alertContainer'[1].id = checks'[k].alert
               /\ alertContainer'[1].className \in ResultClasses(settled')
               /\ \A j \in DoneChecks : checks[j].alert < checks'[k].alert]_vars

\* C19 witness: two checks overlapped, the response of the second landed
\* first and that of the first, a rejection, landed last: the danger alert
\* of the first check is the message shown.
C19_Witness ==
    /\ 2 \in DOMAIN checks
    /\ checks[1].pc = "done"
    /\ checks[2].pc = "done"
    /\ checks[2].alert < checks[1].alert
    /\ settled.kind = "error"
    /\ Len(alertContainer) = 1
    /\ alertContainer[1].id = checks[1].alert
    /\ alertContainer[1].className = "alert alert-danger"
    /\ Cardinality(statusRequests) = 2

\* C20: a click on the item viewInLocalMediaPlayer issues one request whose
\* last query parameter, decoded, is the clicked element's source URL when
\* it has one and its link URL otherwise; a click on any other item issues
\* no request.
C20_SourceUrlElseLinkUrl ==
    call.fn = "onClicked"
    => IF call.info["menuItemId"] = "viewInLocalMediaPlayer"
       THEN /\ Len(call.ret) = 1
            /\ LET params == QueryParams(QueryOf(call.ret[1]))
               IN  PercentDecode(After(params[Len(params)], "=")) =
                       IF "srcUrl" \in DOMAIN call.info
                       THEN call.info["srcUrl"]
                       ELSE call.info["linkUrl"]
       ELSE call.ret = << >>

PlayerKeys == {"defaultMediaPlayer", "defaultPlayer"}

\* C21: a change event leaves the menu item as it was, title included,
\* unless the event is of the local storage area and its changes hold a
\* player key; so an event of another area, and one that changes the port
\* only, change no title.
C21_TitleChangesOnLocalPlayerChangeOnly ==
    call.fn = "onChanged"
    => \/ call.ret = call.menu
       \/ /\ call.area = "local"
          /\ DOMAIN call.changes \cap PlayerKeys # {}

\* C21 witness: the listener of part_001 got an event of the sync area that
\* sets the player to mpc, and one of the local area that sets the port,
\* while the title read "Open in VLC", and the title still reads so.
C21_Witness ==
    /\ call.fn = "onChanged"
    /\ background = "part_001"
    /\ \/ /\ call.area = "sync"
          /\ "defaultMediaPlayer" \in DOMAIN call.changes
          /\ call.changes["defaultMediaPlayer"] = [newValue |-> "mpc"]
       \/ /\ call.area = "local"
          /\ DOMAIN call.changes = {"serverPort"}
    /\ call.menu[1].title = "Open in VLC"
    /\ call.ret[1].title = "Open in VLC"

\* a step in which the user clicks Save: the budget of inputs is charged and
\* none of the other inputs (an install, a menu click, a status click, an
\* edit of the form) shows
SaveInput ==
    /\ events' = events + 1
    /\ installGets' = installGets
    /\ clicks' = clicks
    /\ checks' = checks
    /\ << mpc_checkbox, vlc_checkbox, portText, app_connection_port >>' =
           << mpc_checkbox, vlc_checkbox, portText, app_connection_port >>

\* C22: the stored player and port change only as the write of a save: a
\* write is queued by a click on Save and by nothing else, and the store
\* changes only when the oldest queued write is carried out; so every step of
\* install handling, change handling, a menu click, a launch ending, a
\* status check, an edit of the form or a dismissal leaves store and queue
\* as they are.
C22_StoreWrittenBySaveOnly ==
    [][/\ store' # store
            => /\ setQueue # << >>
               /\ store' = Head(setQueue) @@ store
               /\ setQueue' = Tail(setQueue)
       /\ setQueue' # setQueue
            => \/ setQueue # << >> /\ setQueue' = Tail(setQueue)
               \/ /\ SaveInput
                  /\ Len(setQueue') = Len(setQueue) + 1
                  /\ SubSeq(setQueue', 1, Len(setQueue)) = setQueue
                  /\ DOMAIN setQueue'[Len(setQueue')] =
                        {PopupPlayerKey(popup), "serverPort"}
       /\ (\/ << menu, updates, installGets, clicks, requests, notifications >>'
                 # << menu, updates, installGets, clicks, requests, notifications >>
           \/ << mpc_checkbox, vlc_checkbox, portText, app_connection_port >>'
                 # << mpc_checkbox, vlc_checkbox, portText, app_connection_port >>
           \/ << alertContainer, timers, elements, checks, settled, statusRequests >>'
                 # << alertContainer, timers, elements, checks, settled, statusRequests >>
           \/ popupPc' # popupPc
           \/ Len(changeQueue') < Len(changeQueue))
            => store' = store /\ setQueue' = setQueue]_vars

\* C22 witness: a save has been written (mpc, port 26270) and since then the
\* menu was relabelled by the change event, a menu click has ended in a
\* failure notification and a status check has ended, and the store still
\* holds what was saved.
C22_Witness ==
    /\ store = [defaultMediaPlayer |-> "mpc", serverPort |-> 26270]
    /\ setQueue = << >>
    /\ updates > 0
    /\ \E c \in DOMAIN clicks : clicks[c].pc = "done" /\ NotificationsOf(c) # {}
    /\ \E k \in DOMAIN checks : checks[k].pc = "done"

\* nothing of storage is in flight: no read of the install handler, of a
\* click, of the popup's load or of a status check, no write or its
\* callback, no change event
StorageQuiet ==
    /\ installGets = << >>
    /\ setQueue = << >>
    /\ setCallbacks = 0
    /\ changeQueue = << >>
    /\ popupPc # "loading"
    /\ \A c \in DOMAIN clicks : clicks[c].pc # "get"
    /\ \A k \in DOMAIN checks : checks[k].pc # "get"

\* C23: whenever the menu item exists and nothing of storage is in flight,
\* its title is "Open in " followed by the display name of the stored
\* player (vlc when none is stored or the stored one is empty).
C23_QuietMenuShowsStoredPlayer ==
    (menu # << >> /\ StorageQuiet)
    => \A i \in DOMAIN menu :
          menu[i].title =
              "Open in " \o DisplayName(ReadPlayer(store, PopupPlayerKey(popup)))

\* a step in which the storage read of check k completes
CheckReadStep(k) ==
    /\ checks[k].pc = "get"
    /\ k \in DOMAIN checks'
    /\ checks'[k].pc = "fetch"

\* C24: the step in which the storage read of a status check completes
\* issues that check's one request, to http://localhost:n/status for the
\* port n the store holds at that step (26270 when none is stored), whatever
\* the port field shows; no other step issues a status request, and a
\* request once issued is never changed or withdrawn, whatever is saved
\* afterwards.
C24_StatusProbesStoredPort ==
    [][/\ \A k \in DOMAIN checks :
            CheckReadStep(k)
            => /\ Cardinality(statusRequests' \ statusRequests) = 1
               /\ \A r \in statusRequests' \ statusRequests :
                     /\ r.check = k
                     /\ r.url = "http://localhost:" \o ToString(ReadPort(store))
                                    \o "/status"
       /\ statusRequests \subseteq statusRequests'
       /\ statusRequests' # statusRequests
            => \E k \in DOMAIN checks : CheckReadStep(k)]_vars

\* C24 witness: a check was issued while no port was stored and is still in
\* flight to port 26270; meanwhile 70000 was typed into the port field and
\* saved, and the store holds it.
C24_Witness ==
    /\ portText = "70000"
    /\ "serverPort" \in DOMAIN store
    /\ store["serverPort"] = 70000
    /\ \E r \in statusRequests :
         /\ checks[r.check].pc = "fetch"
         /\ r.url = "http://localhost:26270/status"

\* a message area without the element id, the others in their order
Without(container, id) == SelectSeq(container, LAMBDA e : e.id # id)

====
